---- MODULE Spec2Model ----
(***************************************************************************)
(* The chat server of server.py as a state machine.  One handler task per *)
(* connection runs on a single asyncio event loop: the code between two   *)
(* suspension points is one atomic step, and the steps of different       *)
(* handlers interleave.  Text is a tuple of one-character strings, so     *)
(* that str.strip() and the file-name transliteration are computed.       *)
(***************************************************************************)
EXTENDS Integers, Sequences, FiniteSets, TLC

\* ---------------------------------------------------------------- bounds
MaxLog == 1

\* ... and in the environment of few requests and longer logs (SpecDeep)
MaxLogDeep == 2

\* ------------------------------------------------------ program constants
HISTORY_N == 50

\* the connections the server has accepted
Conns == {1, 2}

\* ------------------------------------------------------------------ text
SafeChars == {"a", "b", "g", "s", "x", "y", "5", "-", "_"}
OtherChars == {" ", "!"}

IsSpace(ch) == ch = " "

RECURSIVE LStrip(_)
LStrip(s) ==
  IF s # <<>> /\ IsSpace(Head(s)) THEN LStrip(Tail(s)) ELSE s

RECURSIVE RStrip(_)
RStrip(s) ==
  IF s # <<>> /\ IsSpace(s[Len(s)]) THEN RStrip(SubSeq(s, 1, Len(s) - 1)) ELSE s

\* str.strip()
Strip(s) == RStrip(LStrip(s))

\* code points of the characters in use, for sorted()
Ord(ch) ==
  CASE ch = " " -> 32 [] ch = "!" -> 33 [] ch = "-" -> 45 [] ch = "5" -> 53
    [] ch = "_" -> 95 [] ch = "a" -> 97 [] ch = "b" -> 98 [] ch = "g" -> 103
    [] ch = "s" -> 115 [] ch = "x" -> 120 [] ch = "y" -> 121

RECURSIVE StrLeq(_, _)
StrLeq(s, t) ==
  IF s = <<>> THEN TRUE
  ELSE IF t = <<>> THEN FALSE
  ELSE IF Head(s) = Head(t) THEN StrLeq(Tail(s), Tail(t))
  ELSE Ord(Head(s)) < Ord(Head(t))

\* ----------------------------------------------------------- JSON values
Str(s) == [t |-> "str", v |-> s]
List(l) == [t |-> "list", v |-> l]
Num == [t |-> "num", v |-> <<"5">>]
Absent == [t |-> "absent", v |-> <<>>]

\* Python truthiness of a decoded value (a missing key reads as None)
Truthy(j) == j.t = "num" \/ (j.t \in {"str", "list"} /\ j.v # <<>>)

\* str(x) of a decoded value
PyStr(j) == j.v

\* data.get(key, "")
GetOrEmpty(j) == IF j.t = "absent" THEN Str(<<>>) ELSE j

\* the items a for-loop draws from a value: a list's elements, a string's
\* characters (each a one-character string)
Items(j) ==
  IF j.t = "list" THEN j.v
  ELSE [i \in 1..Len(j.v) |-> Str(<<j.v[i]>>)]

VARIABLES
  USERS,       \* ws -> username, of the logged-in connections
  USERNAMES,   \* set of active usernames
  ROOMS,       \* room -> set of subscribers
  LOGS,        \* log file name -> its lines (records), in append order
  closed,      \* ws -> the transport is closed (a send to it fails)
  pc,          \* ws -> the await at which its handler task is suspended
  todo,        \* ws -> what the suspended loop of its handler has left
  acc,         \* ws -> newly_subscribed_rooms / unsubscribed_rooms
  username,    \* ws -> the local username of the suspended call
  sent,        \* the sends of the last step: {[to, msg, ok]}
  last,        \* whose step the last step was, and the request it handled
  handling,    \* ws -> the request (data) of its suspended action
  live         \* ws -> the message records that reached it while its
               \*       subscribe is suspended

vars == <<USERS, USERNAMES, ROOMS, LOGS, closed, pc, todo, acc, username,
          sent, last, handling, live>>

\* ------------------------------------------------------------- utilities
IsSafe(ch) == ch \in SafeChars

\* the log file of a room: the room name without the characters that are
\* neither alphanumeric nor "-" nor "_"
log_path_for(room) == SelectSeq(room, IsSafe)

\* variant: the line is written at the head of the file
append_room_log_at_head(L, room, record) ==
  LET p == log_path_for(room)
  IN  IF p \in DOMAIN L THEN [L EXCEPT ![p] = <<record>> \o @]
      ELSE (p :> <<record>>) @@ L

\* the logs after one line is appended to the room's file
append_room_log(L, room, record) ==
  LET p == log_path_for(room)
  IN  IF p \in DOMAIN L THEN [L EXCEPT ![p] = Append(@, record)]
      ELSE (p :> <<record>>) @@ L

\* lines[-n:]
LastLines(lines, n) ==
  IF n = 0 \/ n >= Len(lines) THEN lines
  ELSE SubSeq(lines, Len(lines) - n + 1, Len(lines))

\* the last n records of the room's file; [] without a file or when the
\* read raises.  Every line was written by append_room_log, so each parses.
tail_room_log(L, room, n, read_ok) ==
  LET p == log_path_for(room)
  IN  IF p \notin DOMAIN L THEN <<>>
      ELSE IF ~read_ok THEN <<>>
      ELSE LastLines(L[p], n)

\* ROOMS.get(room, set())
Members(R, room) == IF room \in DOMAIN R THEN R[room] ELSE {}

\* one ws.send: it reaches the peer unless the transport is closed; the
\* failure is swallowed either way
Delivery(ws, payload) == [to |-> ws, msg |-> payload, ok |-> ~closed[ws]]

send(ws, payload) == {Delivery(ws, payload)}

\* variant: a failed send aborts the whole broadcast
broadcast_aborting(R, room, payload, except_ws) ==
  LET targets == Members(R, room) \ except_ws
  IN  IF \E ws \in targets : closed[ws] THEN {}
      ELSE {Delivery(ws, payload) : ws \in targets}

broadcast(R, room, payload, except_ws) ==
  LET targets == Members(R, room) \ except_ws
  IN  {Delivery(ws, payload) : ws \in targets}

\* variant: the check of USERNAMES is dropped
ensure_username_unique_unchecked(name) == name \notin {}

ensure_username_unique(name) == name \notin USERNAMES

\* variant: the names in the order of a reversed sort
RECURSIVE SortedNamesDescending(_, _)
SortedNamesDescending(U, S) ==
  IF S = {} THEN <<>>
  ELSE LET m == CHOOSE x \in S : \A y \in S : StrLeq(U[y], U[x])
       IN  <<U[m]>> \o SortedNamesDescending(U, S \ {m})

\* sorted([U[ws] for ws in S])
RECURSIVE SortedNames(_, _)
SortedNames(U, S) ==
  IF S = {} THEN <<>>
  ELSE LET m == CHOOSE x \in S : \A y \in S : StrLeq(U[x], U[y])
       IN  <<U[m]>> \o SortedNames(U, S \ {m})

\* ---------------------------------------------------------------- payloads
ErrInvalid == [type |-> "error", reason |-> "Invalid JSON message format"]
ErrAuth == [type |-> "error", reason |-> "Authentication required. Please log in."]
ErrUnknown == [type |-> "error", reason |-> "Unknown action"]
ErrAction(action, reason) == [type |-> "error", action |-> action, reason |-> reason]
OkLogin == [type |-> "ok", action |-> "login"]
JoinMsg(room, name) ==
  [type |-> "system", event |-> "join", room |-> room, username |-> name]
LeaveMsg(room, name) ==
  [type |-> "system", event |-> "leave", username |-> name, room |-> room]
SubscribedMsg(rooms) == [type |-> "system", event |-> "subscribed", rooms |-> rooms]
UnsubscribedMsg(rooms) == [type |-> "system", event |-> "unsubscribed", rooms |-> rooms]
HistoryMsg(room, messages) == [type |-> "history", room |-> room, messages |-> messages]
RoomUpdateMsg(room, users) == [type |-> "room_update", room |-> room, users |-> users]
MessageRecord(room, name, message, ts) ==
  [type |-> "message", room |-> room, username |-> name, message |-> message, ts |-> ts]

broadcast_room_update(R, U, room) ==
  LET subscribers == Members(R, room)
      user_list == SortedNames(U, subscribers \cap DOMAIN U)
  IN  IF subscribers = {} THEN {}
      ELSE broadcast(R, room, RoomUpdateMsg(room, user_list), {})

\* ------------------------------------------------------------ the inputs
g == <<"g">>
s == <<"s">>

\* a decoded request: the keys the server reads, in this order
Req(action, name, rooms, room, message) ==
  <<action, name, rooms, room, message>>

\* data.get("action"), data.get("username"), ...
get_action(data) == data[1]
get_username(data) == data[2]
get_rooms(data) == data[3]
get_room(data) == data[4]
get_message(data) == data[5]

NoReq == Req("none", Absent, Absent, Absent, Absent)

LoginNames == {Str(<<"a">>), Str(<<"b">>), Str(<<" ">>), Num}

SubRooms ==
  {List(<<>>), List(<<Str(g)>>), List(<<Str(<<" ", "g">>), Str(g)>>),
   List(<<Str(s)>>), List(<<Str(<<" ">>)>>), List(<<Str(<<" ", "g">>)>>)}

UnsubRooms ==
  {List(<<>>), Num, List(<<Str(g)>>), List(<<Str(<<" ", "g">>)>>),
   List(<<Str(s), Str(g)>>)}

\* <<room, message>> of a publish
Publications ==
  {<<Str(g), Str(<<"x">>)>>, <<Str(<<"g", "!">>), Str(<<"x">>)>>,
   <<Str(<<" ">>), Str(<<"x">>)>>, <<Str(g), Str(<<" ">>)>>}

OtherActions == {"subscribe", "unsubscribe", "publish", "logout", "other"}

\* int(time.time()) when a record is made: the run takes less than a second
Times == {0}

\* ------------------------------------------------------------------ Init
Init ==
  /\ USERS = <<>>
  /\ USERNAMES = {}
  /\ ROOMS = <<>>
  /\ LOGS = <<>>
  /\ closed = [c \in Conns |-> FALSE]
  /\ pc = [c \in Conns |-> "recv"]
  /\ todo = [c \in Conns |-> <<>>]
  /\ acc = [c \in Conns |-> <<>>]
  /\ username = [c \in Conns |-> <<>>]
  /\ sent = {}
  /\ last = [conn |-> 0, step |-> "init", req |-> NoReq]
  /\ handling = [c \in Conns |-> NoReq]
  /\ live = [c \in Conns |-> {}]

\* --------------------------------------------------------- step plumbing
\* A step is what a handler task runs between two suspensions.  An await
\* suspends the task when something is sent; a broadcast without targets
\* returns at once and the task runs on.

\* what a run leaves: ROOMS, the await the task is suspended at with the
\* locals of the suspended call, and what the last await of the run sent
Res(R, label, rest, done, out) ==
  [ROOMS |-> R, pc |-> label, todo |-> rest, acc |-> done, sent |-> out]

\* back in "async for": the locals of the action are gone
Back(R, out) == Res(R, "recv", <<>>, <<>>, out)

\* the handler has left its loop: disconnect has run its removals
Terminated == {"done", "disc_leave", "disc_upd"}

\* the handler is suspended inside handle_subscribe
InSubscribe == {"sub_join", "sub_conf", "sub_hist", "sub_upd"}

\* the message records among the sends that reach ws
Arrived(out, ws) ==
  {p.msg : p \in {q \in out : q.to = ws /\ q.ok /\ q.msg.type = "message"}}

\* the connection is closed when its handler has returned
Apply(c, res) ==
  /\ live' = [d \in Conns |->
               IF (IF d = c THEN res.pc ELSE pc[d]) \in InSubscribe
               THEN live[d] \cup Arrived(res.sent, d)
               ELSE {}]
  /\ ROOMS' = res.ROOMS
  /\ pc' = [pc EXCEPT ![c] = res.pc]
  /\ todo' = [todo EXCEPT ![c] = res.todo]
  /\ acc' = [acc EXCEPT ![c] = res.acc]
  /\ sent' = res.sent
  /\ closed' = IF res.pc = "done" THEN [closed EXCEPT ![c] = TRUE] ELSE closed

\* the request stays the local of the handler while its action is suspended
Note(c, step, req) ==
  /\ last' = [conn |-> c, step |-> step, req |-> req]
  /\ handling' = [handling EXCEPT ![c] = IF pc'[c] \in {"recv"} \cup Terminated
                                         THEN NoReq ELSE req]

\* the handler is suspended in "async for" and a message has arrived
Receives(c) == pc[c] = "recv" /\ ~closed[c]

\* one reply to the requester, then back to "async for"
Reply(c, payload) ==
  /\ Apply(c, Back(ROOMS, send(c, payload)))
  /\ UNCHANGED <<USERS, USERNAMES, LOGS, username>>

\* the orders in which a loop may meet the members of a set
Perms(S) ==
  {q \in [1..Cardinality(S) -> S] :
     \A i, j \in 1..Cardinality(S) : q[i] = q[j] => i = j}

RoomsOf(R, ws) == {room \in DOMAIN R : ws \in R[room]}

\* variant: the emptied room is left in ROOMS
without_pop_skipped(R, room, ws) == [R EXCEPT ![room] = @ \ {ws}]

\* ROOMS after ws left the room: an emptied room is popped
without(R, room, ws) ==
  IF R[room] \ {ws} = {}
  THEN [r \in DOMAIN R \ {room} |-> R[r]]
  ELSE [R EXCEPT ![room] = @ \ {ws}]

\* ------------------------------------------------------------ disconnect
RECURSIVE disconnect_rooms(_, _, _, _)
RECURSIVE disconnect_update(_, _, _, _)

\* "for room in rooms_left", from the leave notice of the first room on
disconnect_rooms(R, U, rest, name) ==
  IF rest = <<>> THEN Res(R, "done", <<>>, <<>>, {})
  ELSE LET out == broadcast(R, Head(rest), LeaveMsg(Head(rest), name), {})
       IN  IF out # {} THEN Res(R, "disc_leave", rest, <<>>, out)
           ELSE disconnect_update(R, U, rest, name)

\* variant: the loop does not advance after a room_update was sent
disconnect_update_stuck(R, U, rest, name) ==
  LET out == broadcast_room_update(R, U, Head(rest))
  IN  IF out = {} THEN disconnect_rooms(R, U, Tail(rest), name)
      ELSE Res(R, "disc_upd", rest, <<>>, out)

\* ... from the room_update of the first room on
disconnect_update(R, U, rest, name) ==
  LET out == broadcast_room_update(R, U, Head(rest))
  IN  IF out = {} THEN disconnect_rooms(R, U, Tail(rest), name)
      ELSE IF Tail(rest) = <<>> THEN Res(R, "done", <<>>, <<>>, out)
      ELSE Res(R, "disc_upd", Tail(rest), <<>>, out)

\* variant: USERS and USERNAMES are cleaned but the rooms are not left
disconnect_rooms_kept(c, order) ==
  IF c \notin DOMAIN USERS
  THEN /\ Apply(c, Res(ROOMS, "done", <<>>, <<>>, {}))
       /\ UNCHANGED <<USERS, USERNAMES, username>>
  ELSE LET name == USERS[c]
           popped == [d \in DOMAIN USERS \ {c} |-> USERS[d]]
           res == disconnect_rooms(ROOMS, popped, order, name)
       IN  /\ USERS' = popped
           /\ USERNAMES' = USERNAMES \ {name}
           /\ username' = [username EXCEPT ![c] = IF res.pc = "done" THEN <<>> ELSE name]
           /\ Apply(c, res)

\* variant: the username stays in USERNAMES
disconnect_name_kept(c, order) ==
  IF c \notin DOMAIN USERS
  THEN /\ Apply(c, Res(ROOMS, "done", <<>>, <<>>, {}))
       /\ UNCHANGED <<USERS, USERNAMES, username>>
  ELSE LET name == USERS[c]
           popped == [d \in DOMAIN USERS \ {c} |-> USERS[d]]
           kept == {room \in DOMAIN ROOMS : c \notin ROOMS[room] \/ ROOMS[room] # {c}}
           left == [room \in kept |-> ROOMS[room] \ {c}]
           res == disconnect_rooms(left, popped, order, name)
       IN  /\ USERS' = popped
           /\ USERNAMES' = USERNAMES
           /\ username' = [username EXCEPT ![c] = IF res.pc = "done" THEN <<>> ELSE name]
           /\ Apply(c, res)

\* disconnect, up to its first await; rooms_left in the order of ROOMS
disconnect(c, order) ==
  IF c \notin DOMAIN USERS
  THEN /\ Apply(c, Res(ROOMS, "done", <<>>, <<>>, {}))
       /\ UNCHANGED <<USERS, USERNAMES, username>>
  ELSE IF USERS[c] = <<>>
  THEN /\ USERS' = [d \in DOMAIN USERS \ {c} |-> USERS[d]]
       /\ Apply(c, Res(ROOMS, "done", <<>>, <<>>, {}))
       /\ UNCHANGED <<USERNAMES, username>>
  ELSE LET name == USERS[c]
           popped == [d \in DOMAIN USERS \ {c} |-> USERS[d]]
           kept == {room \in DOMAIN ROOMS : c \notin ROOMS[room] \/ ROOMS[room] # {c}}
           left == [room \in kept |-> ROOMS[room] \ {c}]
           res == disconnect_rooms(left, popped, order, name)
       IN  /\ USERS' = popped
           /\ USERNAMES' = USERNAMES \ {name}
           /\ username' = [username EXCEPT ![c] = IF res.pc = "done" THEN <<>> ELSE name]
           /\ Apply(c, res)

\* the handler leaves its loop (logout, closed transport, an exception out
\* of an action): its finally clause runs disconnect at once
Finally(c) ==
  /\ \E order \in Perms(RoomsOf(ROOMS, c)) : disconnect(c, order)
  /\ UNCHANGED LOGS

\* ----------------------------------------------------------------- login
handle_login(c, data) ==
  LET raw == GetOrEmpty(get_username(data))
  IN  IF raw.t # "str"
      THEN Finally(c)                 \* .strip() of a non-string raises
      ELSE LET name == Strip(raw.v)
           IN  IF name = <<>>
               THEN Reply(c, ErrAction("login", "Username required"))
               ELSE IF ~ensure_username_unique(name)
               THEN Reply(c, ErrAction("login", "Username taken"))
               ELSE /\ USERS' = (c :> name) @@ USERS
                    /\ USERNAMES' = USERNAMES \cup {name}
                    /\ Apply(c, Back(ROOMS, send(c, OkLogin)))
                    /\ UNCHANGED <<LOGS, username>>

\* ------------------------------------------------------------- subscribe
RECURSIVE subscribe_rooms(_, _, _, _)
RECURSIVE subscribe_replay(_, _, _)
RECURSIVE subscribe_update(_, _, _)

\* "for room_str in rooms", then the confirmation
subscribe_rooms(c, R, rest, done) ==
  IF rest = <<>>
  THEN IF done # <<>>
       THEN Res(R, "sub_conf", done, <<>>, send(c, SubscribedMsg(done)))
       ELSE Back(R, {})
  ELSE LET room == Strip(PyStr(Head(rest)))
           is_new_sub == c \notin Members(R, room)
           joined == IF room \in DOMAIN R
                     THEN [R EXCEPT ![room] = @ \cup {c}]
                     ELSE (room :> {c}) @@ R
           out == IF is_new_sub
                  THEN broadcast(joined, room, JoinMsg(room, USERS[c]), {c})
                  ELSE {}
       IN  IF room = <<>> THEN subscribe_rooms(c, R, Tail(rest), done)
           ELSE IF out # {}
           THEN Res(joined, "sub_join", Tail(rest), Append(done, room), out)
           ELSE subscribe_rooms(c, joined, Tail(rest), Append(done, room))

\* "for room in newly_subscribed_rooms", from the history of the first on
subscribe_replay(c, rest, read_ok) ==
  IF rest = <<>> THEN Back(ROOMS, {})
  ELSE LET history == tail_room_log(LOGS, Head(rest), HISTORY_N, read_ok)
       IN  IF history # <<>>
           THEN Res(ROOMS, "sub_hist", rest, <<>>,
                    send(c, HistoryMsg(Head(rest), history)))
           ELSE subscribe_update(c, rest, read_ok)

\* ... from the room_update of the first room on
subscribe_update(c, rest, read_ok) ==
  LET out == broadcast_room_update(ROOMS, USERS, Head(rest))
  IN  IF out = {} THEN subscribe_replay(c, Tail(rest), read_ok)
      ELSE IF Tail(rest) = <<>> THEN Back(ROOMS, out)
      ELSE Res(ROOMS, "sub_upd", Tail(rest), <<>>, out)

handle_subscribe(c, data) ==
  LET rooms == IF Truthy(get_rooms(data)) THEN get_rooms(data) ELSE List(<<>>)
  IN  /\ IF rooms.t # "list" \/ rooms.v = <<>>
         THEN Apply(c, Back(ROOMS, send(c, ErrAction("subscribe", "rooms list required"))))
         ELSE IF c \notin DOMAIN USERS THEN Apply(c, Back(ROOMS, {}))
         ELSE Apply(c, subscribe_rooms(c, ROOMS, rooms.v, <<>>))
      /\ UNCHANGED <<USERS, USERNAMES, LOGS, username>>

\* ----------------------------------------------------------- unsubscribe
RECURSIVE unsubscribe_rooms(_, _, _, _)
RECURSIVE unsubscribe_update(_, _, _, _)

\* variant: "if subs" in place of "if subs and ws in subs"
unsubscribe_rooms_any(c, R, rest, done) ==
  IF rest = <<>>
  THEN Back(R, IF done # <<>> THEN send(c, UnsubscribedMsg(done)) ELSE {})
  ELSE LET room == PyStr(Head(rest))
           left == without(R, room, c)
           out == broadcast(left, room, LeaveMsg(room, USERS[c]), {})
       IN  IF room \notin DOMAIN R THEN unsubscribe_rooms(c, R, Tail(rest), done)
           ELSE IF out # {}
           THEN Res(left, "unsub_leave", rest, Append(done, room), out)
           ELSE unsubscribe_update(c, left, rest, Append(done, room))

\* "for room in rooms_to_unsub", then the confirmation
unsubscribe_rooms(c, R, rest, done) ==
  IF rest = <<>>
  THEN Back(R, IF done # <<>> THEN send(c, UnsubscribedMsg(done)) ELSE {})
  ELSE LET room == PyStr(Head(rest))
           left == without(R, room, c)
           out == broadcast(left, room, LeaveMsg(room, USERS[c]), {})
       IN  IF c \notin Members(R, room) THEN unsubscribe_rooms(c, R, Tail(rest), done)
           ELSE IF out # {}
           THEN Res(left, "unsub_leave", rest, Append(done, room), out)
           ELSE unsubscribe_update(c, left, rest, Append(done, room))

\* ... from the room_update of the first room on
unsubscribe_update(c, R, rest, done) ==
  LET out == broadcast_room_update(R, USERS, PyStr(Head(rest)))
  IN  IF out = {} THEN unsubscribe_rooms(c, R, Tail(rest), done)
      ELSE Res(R, "unsub_upd", Tail(rest), done, out)

handle_unsubscribe(c, data) ==
  LET rooms_to_unsub == IF Truthy(get_rooms(data)) THEN get_rooms(data) ELSE List(<<>>)
  IN  IF c \notin DOMAIN USERS
      THEN Apply(c, Back(ROOMS, {})) /\ UNCHANGED <<USERS, USERNAMES, LOGS, username>>
      ELSE IF rooms_to_unsub.t = "num"
      THEN Finally(c)                 \* a number is not iterable
      ELSE /\ Apply(c, unsubscribe_rooms(c, ROOMS, Items(rooms_to_unsub), <<>>))
           /\ UNCHANGED <<USERS, USERNAMES, LOGS, username>>

\* --------------------------------------------------------------- publish
\* variant: the record is broadcast and the append comes after the await
handle_publish_append_late(c, data, ts, write_ok) ==
  LET name == IF c \in DOMAIN USERS THEN USERS[c] ELSE <<>>
      room == Strip(PyStr(GetOrEmpty(get_room(data))))
      message == Strip(PyStr(GetOrEmpty(get_message(data))))
      record == MessageRecord(room, name, message, ts)
  IN  IF room = <<>> \/ message = <<>>
      THEN Reply(c, ErrAction("publish", "room and message required"))
      ELSE IF ~write_ok
      THEN Finally(c)
      ELSE /\ LOGS' = IF Members(ROOMS, room) = {}
                      THEN append_room_log(LOGS, room, record) ELSE LOGS
           /\ Apply(c, Back(ROOMS, broadcast(ROOMS, room, record, {})))
           /\ UNCHANGED <<USERS, USERNAMES, username>>

handle_publish(c, data, ts, write_ok) ==
  LET name == IF c \in DOMAIN USERS THEN USERS[c] ELSE <<>>
      room == Strip(PyStr(GetOrEmpty(get_room(data))))
      message == Strip(PyStr(GetOrEmpty(get_message(data))))
      record == MessageRecord(room, name, message, ts)
  IN  IF room = <<>> \/ message = <<>>
      THEN Reply(c, ErrAction("publish", "room and message required"))
      ELSE IF ~write_ok
      THEN Finally(c)                 \* append_room_log raises
      ELSE /\ LOGS' = append_room_log(LOGS, room, record)
           /\ Apply(c, Back(ROOMS, broadcast(ROOMS, room, record, {})))
           /\ UNCHANGED <<USERS, USERNAMES, username>>

\* ------------------------------------------------------------ the handler
\* the message does not decode to an object
handler_invalid(c) ==
  /\ Receives(c)
  /\ Reply(c, ErrInvalid)
  /\ Note(c, "invalid", NoReq)

\* variant: the refused connection is dropped
handler_gate_dropping(c, data) ==
  /\ Receives(c)
  /\ get_action(data) # "login" /\ c \notin DOMAIN USERS
  /\ Finally(c)
  /\ Note(c, "recv", data)

\* any action but login before the login
handler_gate(c, data) ==
  /\ Receives(c)
  /\ get_action(data) # "login" /\ c \notin DOMAIN USERS
  /\ Reply(c, ErrAuth)
  /\ Note(c, "recv", data)

handler_login(c, data) ==
  /\ Receives(c)
  /\ IF c \in DOMAIN USERS
     THEN Reply(c, ErrAction("login", "You are already logged in"))
     ELSE handle_login(c, data)
  /\ Note(c, "recv", data)

handler_subscribe(c, data) ==
  /\ Receives(c)
  /\ c \in DOMAIN USERS
  /\ handle_subscribe(c, data)
  /\ Note(c, "recv", data)

handler_unsubscribe(c, data) ==
  /\ Receives(c)
  /\ c \in DOMAIN USERS
  /\ handle_unsubscribe(c, data)
  /\ Note(c, "recv", data)

\* the room's log file has room for one more line (the bound of the model)
LogHasRoom(data) ==
  LET p == log_path_for(Strip(PyStr(GetOrEmpty(get_room(data)))))
  IN  p \in DOMAIN LOGS => Len(LOGS[p]) < MaxLog

handler_publish(c, data, ts, write_ok) ==
  /\ Receives(c)
  /\ c \in DOMAIN USERS
  /\ LogHasRoom(data)
  /\ handle_publish(c, data, ts, write_ok)
  /\ Note(c, IF write_ok THEN "recv" ELSE "recv_ioerror", data)

handler_logout(c, data) ==
  /\ Receives(c)
  /\ get_action(data) = "logout" /\ c \in DOMAIN USERS
  /\ Finally(c)
  /\ Note(c, "recv", data)

handler_unknown(c, data) ==
  /\ Receives(c)
  /\ get_action(data) = "other" /\ c \in DOMAIN USERS
  /\ Reply(c, ErrUnknown)
  /\ Note(c, "recv", data)

\* "async for" ends or raises ConnectionClosed: the transport is closed
handler_closed(c) ==
  /\ pc[c] = "recv" /\ closed[c]
  /\ Finally(c)
  /\ Note(c, "closed", NoReq)

\* the task resumes at the await it was suspended at
Resume(c, label, res) ==
  /\ pc[c] = label
  /\ Apply(c, res)
  /\ username' = [username EXCEPT ![c] = IF res.pc = "done" THEN <<>> ELSE @]
  /\ Note(c, label, handling[c])
  /\ UNCHANGED <<USERS, USERNAMES, LOGS>>

resume_sub_join(c) ==
  Resume(c, "sub_join", subscribe_rooms(c, ROOMS, todo[c], acc[c]))

resume_sub_conf(c, read_ok) ==
  Resume(c, "sub_conf", subscribe_replay(c, todo[c], read_ok))

resume_sub_hist(c, read_ok) ==
  Resume(c, "sub_hist", subscribe_update(c, todo[c], read_ok))

resume_sub_upd(c, read_ok) ==
  Resume(c, "sub_upd", subscribe_replay(c, todo[c], read_ok))

resume_unsub_leave(c) ==
  Resume(c, "unsub_leave", unsubscribe_update(c, ROOMS, todo[c], acc[c]))

resume_unsub_upd(c) ==
  Resume(c, "unsub_upd", unsubscribe_rooms(c, ROOMS, todo[c], acc[c]))

resume_disc_leave(c) ==
  Resume(c, "disc_leave", disconnect_update(ROOMS, USERS, todo[c], username[c]))

resume_disc_upd(c) ==
  Resume(c, "disc_upd", disconnect_rooms(ROOMS, USERS, todo[c], username[c]))

\* ------------------------------------------------------- the environment
\* the peer goes away, or the network does
Close(c) ==
  /\ ~closed[c]
  /\ closed' = [closed EXCEPT ![c] = TRUE]
  /\ sent' = {}
  /\ last' = [conn |-> c, step |-> "close", req |-> NoReq]
  /\ UNCHANGED <<USERS, USERNAMES, ROOMS, LOGS, pc, todo, acc, username,
                 handling, live>>

Bare(action) == Req(action, Absent, Absent, Absent, Absent)

Next ==
  \/ \E c \in Conns : handler_invalid(c)
  \/ \E c \in Conns, action \in OtherActions : handler_gate(c, Bare(action))
  \/ \E c \in Conns, name \in LoginNames :
       handler_login(c, Req("login", name, Absent, Absent, Absent))
  \/ \E c \in Conns, rooms \in SubRooms :
       handler_subscribe(c, Req("subscribe", Absent, rooms, Absent, Absent))
  \/ \E c \in Conns, rooms \in UnsubRooms :
       handler_unsubscribe(c, Req("unsubscribe", Absent, rooms, Absent, Absent))
  \/ \E c \in Conns, p \in Publications, ts \in Times, write_ok \in BOOLEAN :
       handler_publish(c, Req("publish", Absent, Absent, p[1], p[2]), ts, write_ok)
  \/ \E c \in Conns : handler_logout(c, Bare("logout"))
  \/ \E c \in Conns : handler_unknown(c, Bare("other"))
  \/ \E c \in Conns : handler_closed(c)
  \/ \E c \in Conns : resume_sub_join(c)
  \/ \E c \in Conns, read_ok \in BOOLEAN : resume_sub_conf(c, read_ok)
  \/ \E c \in Conns, read_ok \in BOOLEAN : resume_sub_hist(c, read_ok)
  \/ \E c \in Conns, read_ok \in BOOLEAN : resume_sub_upd(c, read_ok)
  \/ \E c \in Conns : resume_unsub_leave(c)
  \/ \E c \in Conns : resume_unsub_upd(c)
  \/ \E c \in Conns : resume_disc_leave(c)
  \/ \E c \in Conns : resume_disc_upd(c)
  \/ \E c \in Conns : Close(c)

Spec == Init /\ [][Next]_vars

\* ------------------------------------------- longer logs, fewer requests
\* The same handlers in an environment that asks for one room only but lets
\* a log file grow to MaxLogDeep lines.
handler_publish_deep(c, data, ts, write_ok) ==
  /\ Receives(c)
  /\ c \in DOMAIN USERS
  /\ LET p == log_path_for(Strip(PyStr(GetOrEmpty(get_room(data)))))
     IN  p \in DOMAIN LOGS => Len(LOGS[p]) < MaxLogDeep
  /\ handle_publish(c, data, ts, write_ok)
  /\ Note(c, IF write_ok THEN "recv" ELSE "recv_ioerror", data)

DeepLoginNames == {Str(<<"a">>), Str(<<"b">>)}

DeepPublications ==
  {<<Str(g), Str(<<"x">>)>>, <<Str(g), Str(<<"y">>)>>, <<Str(<<"g", "!">>), Str(<<"x">>)>>}

NextDeep ==
  \/ \E c \in Conns : handler_gate(c, Bare("publish"))
  \/ \E c \in Conns, name \in DeepLoginNames :
       handler_login(c, Req("login", name, Absent, Absent, Absent))
  \/ \E c \in Conns :
       handler_subscribe(c, Req("subscribe", Absent, List(<<Str(g)>>), Absent, Absent))
  \/ \E c \in Conns :
       handler_unsubscribe(c, Req("unsubscribe", Absent, List(<<Str(g)>>), Absent, Absent))
  \/ \E c \in Conns, p \in DeepPublications, ts \in Times, write_ok \in BOOLEAN :
       handler_publish_deep(c, Req("publish", Absent, Absent, p[1], p[2]), ts, write_ok)
  \/ \E c \in Conns : handler_logout(c, Bare("logout"))
  \/ \E c \in Conns : handler_closed(c)
  \/ \E c \in Conns : resume_sub_join(c)
  \/ \E c \in Conns, read_ok \in BOOLEAN : resume_sub_conf(c, read_ok)
  \/ \E c \in Conns, read_ok \in BOOLEAN : resume_sub_hist(c, read_ok)
  \/ \E c \in Conns : resume_unsub_leave(c)
  \/ \E c \in Conns : resume_unsub_upd(c)
  \/ \E c \in Conns : resume_disc_leave(c)
  \/ \E c \in Conns : Close(c)

SpecDeep == Init /\ [][NextDeep]_vars

\* ================================================================ claims
Live(c) == pc[c] \notin Terminated

\* the last step was the handler of c receiving a request
Received(c) == last.conn = c /\ last.step = "recv"

\* exactly this one payload went out, to ws
SentOnly(ws, payload) == \E p \in sent : sent = {p} /\ p.to = ws /\ p.msg = payload

\* the username a login request asks for
Asked(req) == Strip(PyStr(GetOrEmpty(get_username(req))))

\* C1: a username is in USERNAMES iff exactly one live connection is mapped
\* to it in USERS; no two connections share a username; a login answered
\* with ok holds the username alone, and a login attempt that fails on a
\* non-empty username is answered "Username taken", which is only ever sent
\* when another connection holds that username.
C1_UniqueUsernames ==
  /\ USERNAMES = {USERS[c] : c \in DOMAIN USERS}
  /\ \A c, d \in DOMAIN USERS : USERS[c] = USERS[d] => c = d
  /\ \A c \in DOMAIN USERS : Live(c)
  /\ \A c \in Conns :
       (Received(c) /\ get_action(last.req) = "login" /\ get_username(last.req).t = "str")
       => /\ SentOnly(c, OkLogin)
               => /\ c \in DOMAIN USERS /\ USERS[c] = Asked(last.req)
                  /\ \A d \in DOMAIN USERS \ {c} : USERS[d] # USERS[c]
          /\ (c \notin DOMAIN USERS /\ Asked(last.req) # <<>>)
               => SentOnly(c, ErrAction("login", "Username taken"))
          /\ SentOnly(c, ErrAction("login", "Username taken"))
               => /\ c \notin DOMAIN USERS
                  /\ \E d \in DOMAIN USERS : USERS[d] = Asked(last.req)

\* a second connection asked for a username in use and was refused
C1_Witness ==
  \E c \in Conns, d \in DOMAIN USERS :
    /\ c # d /\ Received(c) /\ get_action(last.req) = "login"
    /\ get_username(last.req).t = "str" /\ USERS[d] = Asked(last.req)
    /\ SentOnly(c, ErrAction("login", "Username taken"))

\* C2: before its login, any action of a connection other than login is
\* answered with the authentication-required error, changes neither USERS
\* nor USERNAMES nor ROOMS nor any history log, and leaves the connection
\* open and not logged in.
C2_GateFrame ==
  [][\A c \in Conns :
       (/\ pc[c] = "recv" /\ c \notin DOMAIN USERS
        /\ last'.conn = c /\ last'.step = "recv"
        /\ get_action(last'.req) \in OtherActions)
       => /\ sent' = {[to |-> c, msg |-> ErrAuth, ok |-> TRUE]}
          /\ UNCHANGED <<USERS, USERNAMES, ROOMS, LOGS>>
          /\ pc'[c] = "recv" /\ ~closed'[c]]_vars

\* a publish before the login was refused while another connection sits in
\* a room that has a history
C2_Witness ==
  \E c \in Conns :
    /\ Received(c) /\ get_action(last.req) = "publish" /\ c \notin DOMAIN USERS
    /\ SentOnly(c, ErrAuth) /\ pc[c] = "recv"
    /\ DOMAIN ROOMS # {} /\ DOMAIN LOGS # {}

\* C3: every member of a room's subscriber set has a username in USERS, in
\* every state, those between the awaits of an action included.
C3_MembersAreUsers ==
  \A room \in DOMAIN ROOMS : ROOMS[room] \subseteq DOMAIN USERS

\* one connection is suspended in the middle of its disconnect, another in
\* the middle of a subscribe, and a room has a member
C3_Witness ==
  \E c, d \in Conns :
    /\ pc[c] = "disc_leave" /\ pc[d] \in {"sub_join", "sub_conf", "sub_hist"}
    /\ \E room \in DOMAIN ROOMS : ROOMS[room] # {}

\* C4: ROOMS has no key with an empty subscriber set.
C4_NoEmptyRoom ==
  \A room \in DOMAIN ROOMS : ROOMS[room] # {}

\* the last subscriber of a room has unsubscribed and the room is gone
C4_Witness ==
  \E c \in Conns :
    /\ Received(c) /\ get_action(last.req) = "unsubscribe"
    /\ SentOnly(c, UnsubscribedMsg(<<g>>))
    /\ g \notin DOMAIN ROOMS /\ s \in DOMAIN ROOMS

\* the step taken is the handler of c taking this action from "async for"
Takes(c, action) ==
  /\ pc[c] = "recv" /\ last'.conn = c
  /\ last'.step \in {"recv", "recv_ioerror"}
  /\ get_action(last'.req) = action

\* the room and the message of a publish, as handle_publish reads them
PubRoom(req) == Strip(PyStr(GetOrEmpty(get_room(req))))
PubMessage(req) == Strip(PyStr(GetOrEmpty(get_message(req))))

\* C5: subscribing to a room the connection is already in is a silent no-op
\* for that room: the room is not listed in the "subscribed" confirmation
\* (nor listed twice), and it is not among the rooms whose history is
\* replayed after the confirmation.
C5_ResubscribeSilent ==
  [][\A c \in Conns :
       (Takes(c, "subscribe") /\ c \in DOMAIN USERS)
       => /\ \A p \in sent' :
               (p.to = c /\ p.msg.type = "system" /\ p.msg.event = "subscribed")
               => \A i \in 1..Len(p.msg.rooms) :
                    /\ p.msg.rooms[i] \notin RoomsOf(ROOMS, c)
                    /\ \A j \in 1..Len(p.msg.rooms) :
                         p.msg.rooms[i] = p.msg.rooms[j] => i = j
          /\ pc'[c] = "sub_conf"
               => \A i \in 1..Len(todo'[c]) : todo'[c][i] \notin RoomsOf(ROOMS, c)]_vars

\* C6: a publish with a non-empty room and message that is appended to the
\* history is delivered to every subscriber of the room at that time, and to
\* the publisher itself.
C6_PublishReachesAll ==
  [][\A c \in Conns :
       (/\ Takes(c, "publish") /\ last'.step = "recv" /\ c \in DOMAIN USERS
        /\ PubRoom(last'.req) # <<>> /\ PubMessage(last'.req) # <<>>)
       => \E ts \in Times :
            LET record == MessageRecord(PubRoom(last'.req), USERS[c],
                                        PubMessage(last'.req), ts)
            IN  \A d \in Members(ROOMS, PubRoom(last'.req)) \cup {c} :
                  \E p \in sent' : p.to = d /\ p.msg = record]_vars

\* the request is one the server rejects or does not carry out
Rejected(c, req) ==
  \/ c \notin DOMAIN USERS /\ get_action(req) \in OtherActions
  \/ /\ get_action(req) = "login"
     /\ \/ c \in DOMAIN USERS
        \/ /\ get_username(req).t = "str"
           /\ Asked(req) = <<>> \/ Asked(req) \in USERNAMES
  \/ /\ c \in DOMAIN USERS
     /\ \/ get_action(req) = "other"
        \/ /\ get_action(req) = "publish"
           /\ PubRoom(req) = <<>> \/ PubMessage(req) = <<>>
        \/ /\ get_action(req) \in {"subscribe", "unsubscribe"}
           /\ get_rooms(req) \in {Absent, List(<<>>)}

\* C7: every request the server rejects (decode error, authentication
\* required, empty or taken username, repeated login, empty room or message
\* on publish, empty rooms list on subscribe or unsubscribe, unknown action)
\* is answered with exactly one error, sent to the requester.
C7_OneErrorPerRejection ==
  [][\A c \in Conns :
       (/\ pc[c] = "recv" /\ last'.conn = c
        /\ \/ last'.step = "invalid"
           \/ last'.step = "recv" /\ Rejected(c, last'.req))
       => \E p \in sent' : sent' = {p} /\ p.to = c /\ p.msg.type = "error"]_vars

\* C8: a handler leaves its loop only on a logout of a logged-in connection
\* or when the transport is closed; nothing else that happens while an
\* action is processed ends the session.
C8_OnlyLogoutOrClose ==
  [][\A c \in Conns :
       (pc[c] = "recv" /\ pc'[c] \in Terminated)
       => \/ closed[c]
          \/ Takes(c, "logout") /\ c \in DOMAIN USERS]_vars

\* C9: when the append of a publish to the history fails, the message is
\* still delivered to every subscriber the room has at that time.
C9_BroadcastDespiteAppendFailure ==
  [][\A c \in Conns :
       (Takes(c, "publish") /\ last'.step = "recv_ioerror")
       => \A d \in Members(ROOMS, PubRoom(last'.req)) :
            \E p \in sent' :
              /\ p.to = d /\ p.msg.type = "message"
              /\ p.msg.room = PubRoom(last'.req)
              /\ p.msg.message = PubMessage(last'.req)]_vars

\* C10: once the handler of a connection has left its loop, by whatever
\* path, the connection is in neither USERS nor any subscriber set of ROOMS,
\* and the username it held is in USERNAMES only if another, live connection
\* holds it now.
C10_TerminatedIsGone ==
  /\ \A c \in Conns :
       pc[c] \in Terminated
       => /\ c \notin DOMAIN USERS
          /\ \A room \in DOMAIN ROOMS : c \notin ROOMS[room]
          /\ (pc[c] # "done" /\ username[c] \in USERNAMES)
               => \E d \in DOMAIN USERS \ {c} : USERS[d] = username[c] /\ Live(d)
  /\ \A name \in USERNAMES : \E d \in DOMAIN USERS : USERS[d] = name /\ Live(d)

\* a failed append has ended the session of a connection that shared a room
\* with another: its disconnect is suspended at the leave notice
C10_Witness ==
  \E c, d \in Conns :
    /\ c # d /\ last.conn = c /\ last.step = "recv_ioerror"
    /\ pc[c] = "disc_leave" /\ username[c] # <<>>
    /\ username[c] \notin USERNAMES
    /\ \E room \in DOMAIN ROOMS : d \in ROOMS[room]
    /\ \E p \in sent : p.to = d /\ p.msg = LeaveMsg(Head(todo[c]), username[c])

\* --------------------------------------------------------------- cleanup
Range(q) == {q[i] : i \in 1..Len(q)}

IsLeave(m) == m.type = "system" /\ m.event = "leave"

\* the rooms of rooms_left for which disconnect has not yet issued the leave
\* notice, for a handler at this await with these rooms still to go
PendingOf(label, rest, joined) ==
  CASE label = "recv" -> joined
    [] label = "disc_leave" -> Range(Tail(rest))
    [] label = "disc_upd" -> Range(rest)
    [] OTHER -> {}

\* the step is one of the disconnect of c: its start or a resumption
DisconnectStep(c) ==
  /\ last'.conn = c /\ last'.step # "close"
  /\ pc[c] \in {"recv", "disc_leave", "disc_upd"} /\ pc'[c] \in Terminated

\* C11: cleanup runs once per connection on every exit path.  A handler that
\* has left its loop never re-enters it; each step of its disconnect issues
\* leave notices only for rooms the connection was in when its session ended
\* and that had no notice yet, at most one room per step, naming the departed
\* username and addressed to exactly the subscribers remaining in the room;
\* a room is passed over without a notice only when nobody remains in it;
\* and the step after a leave notice sends the room_update of that room to
\* the subscribers it then has.
C11_CleanupOnce ==
  [][\A c \in Conns :
       /\ pc[c] \in Terminated => pc'[c] \in Terminated
       /\ pc[c] = "done" => (pc'[c] = "done" /\ last'.conn # c)
       /\ DisconnectStep(c) =>
            LET todo_before == PendingOf(pc[c], todo[c], RoomsOf(ROOMS, c))
                todo_after == PendingOf(pc'[c], todo'[c], {})
                name == IF pc[c] # "recv" THEN username[c]
                        ELSE IF c \in DOMAIN USERS THEN USERS[c] ELSE <<>>
                leaves == {p \in sent' : IsLeave(p.msg)}
            IN  /\ todo_after \subseteq todo_before
                /\ \A p, q \in leaves : p.msg = q.msg
                /\ \A p \in leaves :
                     /\ p.msg = LeaveMsg(p.msg.room, name)
                     /\ p.msg.room \in todo_before \ todo_after
                     /\ pc'[c] = "disc_leave" /\ Head(todo'[c]) = p.msg.room
                     /\ {q.to : q \in leaves} = Members(ROOMS', p.msg.room)
                     /\ p.to # c
                /\ \A room \in todo_before \ todo_after :
                     \/ \E p \in leaves : p.msg.room = room
                     \/ Members(ROOMS', room) = {}
                /\ (pc[c] = "disc_leave" /\ Members(ROOMS, Head(todo[c])) # {})
                     => /\ {p.to : p \in sent'} = Members(ROOMS, Head(todo[c]))
                        /\ \A p \in sent' :
                             /\ p.msg.type = "room_update"
                             /\ p.msg.room = Head(todo[c])]_vars

\* a connection that shared two rooms with another has ended: the first room
\* has had its leave notice and room_update, and the leave notice of the
\* second has just gone to the subscriber that remains
C11_Witness ==
  \E c, d \in Conns :
    /\ c # d /\ last.conn = c /\ last.step = "disc_upd"
    /\ pc[c] = "disc_leave" /\ Len(todo[c]) = 1
    /\ \E p \in sent : p.to = d /\ p.msg = LeaveMsg(Head(todo[c]), username[c])

\* ---------------------------------------------------------------- history
\* the records published to the room, in publish order: those lines of its
\* log file that were appended by a publish to this room
PublishedTo(room) ==
  LET p == log_path_for(room)
      ToRoom(record) == record.room = room
  IN  IF p \in DOMAIN LOGS THEN SelectSeq(LOGS[p], ToRoom) ELSE <<>>

\* C12: a history replay sent for a room consists of exactly the HISTORY_N
\* most recent of the records published to that room, oldest first (all of
\* them when there are no more than HISTORY_N).
C12_ReplayIsTail ==
  \A p \in sent :
    p.msg.type = "history"
    => p.msg.messages = LastLines(PublishedTo(p.msg.room), HISTORY_N)

\* --------------------------------------------------------------- ordering
\* the lines of a log file, none when there is no file
Lines(L, p) == IF p \in DOMAIN L THEN L[p] ELSE <<>>

\* the message records among the sends of a step
Messages(out) == {p.msg : p \in {q \in out : q.msg.type = "message"}}

\* C13: messages to one room reach every subscriber in the order in which
\* they were appended to the room's log.  A step that sends message records
\* sends one record only, to every subscriber the room has, and it is the
\* step that appends this record at the end of the room's log; the logs
\* change in no other way.  The order of the appends is so the order of the
\* broadcasts, and the order in which each subscriber is sent them.
C13_BroadcastInAppendOrder ==
  [][/\ \A rec \in Messages(sent') :
          /\ Messages(sent') = {rec}
          /\ LOGS' = append_room_log(LOGS, rec.room, rec)
          /\ Lines(LOGS', log_path_for(rec.room))
               = Append(Lines(LOGS, log_path_for(rec.room)), rec)
          /\ {p.to : p \in sent'} = Members(ROOMS, rec.room)
     /\ \A p \in DOMAIN LOGS :
          /\ p \in DOMAIN LOGS'
          /\ \/ LOGS'[p] = LOGS[p]
             \/ /\ Len(LOGS'[p]) = Len(LOGS[p]) + 1
                /\ SubSeq(LOGS'[p], 1, Len(LOGS[p])) = LOGS[p]
                /\ Members(ROOMS, LOGS'[p][Len(LOGS'[p])].room) # {}
                     => LOGS'[p][Len(LOGS'[p])] \in Messages(sent')]_vars

\* two publishers have each published to a room both are subscribed to: the
\* second record is the last line of the log and has just been sent to both
C13_Witness ==
  \E c, d \in Conns :
    /\ c # d /\ g \in DOMAIN ROOMS /\ ROOMS[g] = {c, d}
    /\ g \in DOMAIN LOGS /\ Len(LOGS[g]) = 2
    /\ LOGS[g][1] = MessageRecord(g, USERS[c], <<"x">>, 0)
    /\ LOGS[g][2] = MessageRecord(g, USERS[d], <<"y">>, 0)
    /\ Received(d)
    /\ \A e \in {c, d} : \E p \in sent : p.to = e /\ p.ok /\ p.msg = LOGS[g][2]

\* ------------------------------------------------------ delivery failures
\* the handler is suspended at an await of subscribe or unsubscribe
InAction == InSubscribe \cup {"unsub_leave", "unsub_upd"}

\* C14: a send that fails does not keep a broadcast from the other members
\* and raises nothing.  A publish whose record is appended is sent to every
\* member of the room, and reaches each one whose transport is open, whether
\* or not the transport of another member is closed; the publisher stays
\* logged in, in its receive loop, and is sent no error.  A handler that
\* resumes after a broadcast of its subscribe or unsubscribe carries on with
\* the action, whatever became of the sends.
C14_IsolatedDeliveryFailure ==
  [][\A c \in Conns :
       /\ (/\ Takes(c, "publish") /\ last'.step = "recv" /\ c \in DOMAIN USERS
           /\ PubRoom(last'.req) # <<>> /\ PubMessage(last'.req) # <<>>)
          => /\ \A d \in Members(ROOMS, PubRoom(last'.req)) :
                  \E p \in sent' :
                    /\ p.to = d /\ p.ok = ~closed[d]
                    /\ p.msg.type = "message"
                    /\ p.msg.room = PubRoom(last'.req)
                    /\ p.msg.message = PubMessage(last'.req)
                    /\ p.msg.username = USERS[c]
             /\ \A p \in sent' : p.msg.type # "error"
             /\ pc'[c] = "recv" /\ ~closed'[c]
             /\ c \in DOMAIN USERS' /\ USERS'[c] = USERS[c]
       /\ (pc[c] \in InAction /\ last'.conn = c /\ last'.step # "close")
          => /\ pc'[c] \in InAction \cup {"recv"}
             /\ c \in DOMAIN USERS' /\ USERS'[c] = USERS[c]
             /\ \A p \in sent' : p.msg.type # "error"]_vars

\* a publish to a room with a member whose transport is closed: the send to
\* that member failed, the publisher, a member too, got the record and is
\* back in its receive loop, logged in
C14_Witness ==
  \E c, d \in Conns :
    /\ c # d /\ Received(c) /\ get_action(last.req) = "publish"
    /\ closed[d] /\ ~closed[c] /\ pc[c] = "recv" /\ c \in DOMAIN USERS
    /\ \E p, q \in sent :
         /\ p.to = d /\ ~p.ok /\ q.to = c /\ q.ok
         /\ p.msg = q.msg /\ q.msg.type = "message"

\* ------------------------------------------------------------ unsubscribe
\* the room names (as str) of a sequence of decoded values
Names(q) == {PyStr(q[i]) : i \in 1..Len(q)}

\* the rooms of the request that the loop of handle_unsubscribe has not
\* reached yet, for a handler of an unsubscribe that takes a step
Unreached(c) ==
  CASE pc[c] = "recv" ->
         IF get_rooms(last'.req).t = "list" THEN Names(get_rooms(last'.req).v) ELSE {}
    [] pc[c] = "unsub_leave" -> Names(Tail(todo[c]))
    [] pc[c] = "unsub_upd" -> Names(todo[c])
    [] OTHER -> {}

\* the step is one of an unsubscribe of c: its start or a resumption
UnsubscribeStep(c) ==
  /\ last'.conn = c /\ last'.step # "close" /\ c \in DOMAIN USERS
  /\ \/ Takes(c, "unsubscribe") /\ get_rooms(last'.req).t # "num"
     \/ pc[c] \in {"unsub_leave", "unsub_upd"}

\* a leave notice, a room_update or a confirmation that concerns the room
Concerns(m, room) ==
  \/ IsLeave(m) /\ m.room = room
  \/ m.type = "room_update" /\ m.room = room
  \/ m.type = "system" /\ m.event = "unsubscribed" /\ room \in Range(m.rooms)

\* C15: unsubscribing from a room the connection is not a member of has no
\* effect.  In every step of an unsubscribe, a room of the request that the
\* loop has still to reach and that the connection is not in (and has not
\* left earlier in this request) keeps its subscriber set, is the subject of
\* no leave notice and no room_update, and is in no confirmation; a request
\* that names such rooms only changes nothing and sends nothing.
C15_UnsubscribeNonMember ==
  [][\A c \in Conns :
       UnsubscribeStep(c) =>
         LET idle == {room \in Unreached(c) :
                        c \notin Members(ROOMS, room) /\ room \notin Range(acc[c])}
         IN  /\ \A room \in idle :
                  /\ Members(ROOMS', room) = Members(ROOMS, room)
                  /\ (room \in DOMAIN ROOMS') = (room \in DOMAIN ROOMS)
                  /\ \A p \in sent' : ~Concerns(p.msg, room)
                  /\ room \notin Range(acc'[c])
             /\ (pc[c] = "recv" /\ idle = Unreached(c))
                  => /\ sent' = {} /\ pc'[c] = "recv"
                     /\ UNCHANGED <<USERS, USERNAMES, ROOMS, LOGS>>]_vars

\* a logged-in connection has asked to leave a room that another connection
\* is subscribed to and that it never joined: nothing was sent
C15_Witness ==
  \E c, d \in Conns :
    /\ c # d /\ Received(c) /\ get_action(last.req) = "unsubscribe"
    /\ get_rooms(last.req) = List(<<Str(g)>>)
    /\ c \in DOMAIN USERS /\ RoomsOf(ROOMS, c) = {s}
    /\ g \in DOMAIN ROOMS /\ ROOMS[g] = {d}
    /\ sent = {} /\ pc[c] = "recv"

\* ----------------------------------------------------- append, then send
\* C16: a message record that is sent, or whose send is attempted, is by
\* then the last line of the log of its room, and a read of the history of
\* that room returns it; the records that reached a connection while its
\* subscribe is suspended are in the logs of their rooms too.
C16_AppendedBeforeBroadcast ==
  /\ \A p \in sent :
       p.msg.type = "message"
       => LET lines == Lines(LOGS, log_path_for(p.msg.room))
          IN  /\ lines # <<>> /\ lines[Len(lines)] = p.msg
              /\ p.msg \in Range(tail_room_log(LOGS, p.msg.room, HISTORY_N, TRUE))
  /\ \A c \in Conns : \A rec \in live[c] :
       rec \in Range(tail_room_log(LOGS, rec.room, HISTORY_N, TRUE))

\* a record has just been sent to a connection whose subscribe has yet to
\* read the history of the room
C16_Witness ==
  \E c \in Conns :
    /\ pc[c] \in {"sub_join", "sub_conf"} /\ last.conn # c
    /\ \E p \in sent :
         /\ p.to = c /\ p.ok /\ p.msg.type = "message"
         /\ p.msg \in Range(Lines(LOGS, log_path_for(p.msg.room)))

\* ------------------------------------------------------------ room_update
\* C17: a room_update for a room carries the usernames of exactly the
\* connections in the room's subscriber set when it is issued, each once,
\* in ascending order, and is addressed to exactly those connections.
C17_RoomUpdateIsMembership ==
  \A p \in sent :
    p.msg.type = "room_update"
    => LET room == p.msg.room
           users == p.msg.users
       IN  /\ room \in DOMAIN ROOMS
           /\ ROOMS[room] \subseteq DOMAIN USERS
           /\ Range(users) = {USERS[d] : d \in ROOMS[room]}
           /\ Len(users) = Cardinality(ROOMS[room])
           /\ \A i, j \in 1..Len(users) :
                i < j => (StrLeq(users[i], users[j]) /\ users[i] # users[j])
           /\ {q.to : q \in {r \in sent : r.msg = p.msg}} = ROOMS[room]

\* a subscribe has resumed past its replay and issued the update of a room
\* that has two subscribers: the payload names both, in order, and both
\* connections are among its recipients
C17_Witness ==
  \E c \in Conns :
    /\ last.conn = c /\ get_action(last.req) = "subscribe"
    /\ \E p \in sent :
         /\ p.msg.type = "room_update" /\ Len(p.msg.users) = 2
         /\ p.msg.users[1] # p.msg.users[2]
         /\ ROOMS[p.msg.room] = Conns
         /\ {q.to : q \in {r \in sent : r.msg = p.msg}} = Conns

\* ------------------------------------------------------ history, per room
\* C18: the history replay sent for a room contains only records that were
\* published to that room, never a record published to a room of another
\* name.
C18_HistoryIsolated ==
  \A p \in sent :
    p.msg.type = "history"
    => \A i \in 1..Len(p.msg.messages) : p.msg.messages[i].room = p.msg.room

\* ---------------------------------------------------- live and replayed
\* C19: no record reaches a subscribing connection both as a live message
\* while its subscribe is in progress and inside the history replay of that
\* subscribe.
C19_AtMostOnce ==
  \A p \in sent :
    (p.msg.type = "history" /\ p.ok)
    => \A i \in 1..Len(p.msg.messages) : p.msg.messages[i] \notin live[p.to]

\* ------------------------------------------- subscribe, then unsubscribe
\* C20: a connection whose subscribe{rooms: L} has just completed and whose
\* next request is unsubscribe{rooms: L}, with the same list, is after that
\* unsubscribe a member of none of the rooms it joined through L.
C20_SubscribeUnsubscribeInverse ==
  [][\A c \in Conns :
       ( /\ last.conn = c /\ pc[c] = "recv" /\ c \in DOMAIN USERS
         /\ get_action(last.req) = "subscribe"
         /\ get_rooms(last.req).t = "list"
         /\ Takes(c, "unsubscribe")
         /\ get_rooms(last'.req) = get_rooms(last.req)
         /\ pc'[c] = "recv" )
       => \A room \in Names(get_rooms(last.req).v) :
            Strip(room) # <<>> => c \notin Members(ROOMS', Strip(room))]_vars

====
